---- MODULE Spec2Model ----
(***************************************************************************)
(* Model of the script compiler of makepak                                 *)
(* (makepak/src/buildobj/script_parser.rs).                                *)
(*                                                                         *)
(* A source text is a sequence of one-character strings.  A parser takes   *)
(* the text s and a state st = [pos, val]: pos is the 1-based index of the *)
(* first character of the remaining input (Len(s)+1 at end of input) and   *)
(* val the values produced so far, the bindings of a do_parse!.  It        *)
(* returns the state after it, with its own value appended if it has one.  *)
(* Position 0 is nom's Err(Error): every parser given position 0 returns   *)
(* position 0, so that the steps of a do_parse! compose.  The input type   *)
(* is CompleteStr, so no parser ever returns Incomplete, and nothing in    *)
(* the grammar raises Err(Failure).                                        *)
(***************************************************************************)
EXTENDS Integers, Sequences, FiniteSets, TLC

VARIABLES
  src,      \* the source text handed to parse
  pc,       \* "write": the text is being written; "fold": sections is running;
            \* "done": parse has returned; "text", "applied": see SpecInstr
  pos,      \* position of the remaining input of fold_many0!
  acc,      \* the HashMap fold_many0! has built so far
  result,   \* what parse returned
  out,      \* what instruction returned (SpecInstr)
  written,  \* the sections written into src, as (name, instructions) pairs
  blank,    \* the text ends with an empty or whitespace-only line
  marks,    \* what has been written into src besides plain statements
  count     \* statements written

vars == <<src, pc, pos, acc, result, out, written, blank, marks, count>>

(***************************************************************************)
(* Character classes                                                       *)
(***************************************************************************)
Letters ==
  {"a", "b", "c", "d", "e", "f", "g", "h", "i", "j", "k", "l", "m",
   "n", "o", "p", "q", "r", "s", "t", "u", "v", "w", "x", "y", "z"}

Digits == {"0", "1", "2", "3", "4", "5", "6", "7", "8", "9"}

\* nom::space accepts blanks and tabs
IsSpaceChar(c) == c \in {" ", "\t"}

\* nom::sp, the separator of ws!, accepts blanks, tabs and both line-break characters
IsSepChar(c) == c \in {" ", "\t", "\r", "\n"}

\* characters of an identifier token
IsIdChar(c) == c \in Letters \cup Digits \cup {"_", "-"}

\* characters of a symbol token
IsSymbolChar(c) == c \in Letters \cup Digits \cup {"_"}

(***************************************************************************)
(* Parser states                                                           *)
(***************************************************************************)
\* the state in front of position i, no value produced yet
Start(i) == [pos |-> i, val |-> <<>>]

\* the state st at its position, for a parser that collects its own values
Fresh(st) == [pos |-> st.pos, val |-> <<>>]

\* Err(Error) of a parser applied to st
Failed(st) == [pos |-> 0, val |-> st.val]

Fail == [pos |-> 0, val |-> <<>>]

\* st after a parser without a value has moved to position p
Moved(st, p) == [pos |-> p, val |-> st.val]

\* the last value a parser has produced
Value(r) == r.val[Len(r.val)]

\* the end of do_parse!: r is the state after the last step, begun from
\* Fresh(st), and C makes the parser's value of the values bound on the way
Yield(C(_), st, r) ==
  IF r.pos = 0 THEN Failed(st)
  ELSE [pos |-> r.pos, val |-> Append(st.val, C(r.val))]

(***************************************************************************)
(* Primitive parsers of nom, as the grammar uses them on CompleteStr       *)
(***************************************************************************)
AtEnd(s, i) == i > Len(s)

RECURSIVE SkipSpace(_, _)
SkipSpace(s, i) ==
  IF i <= Len(s) /\ IsSpaceChar(s[i]) THEN SkipSpace(s, i + 1) ELSE i

RECURSIVE SkipSep(_, _)
SkipSep(s, i) ==
  IF i <= Len(s) /\ IsSepChar(s[i]) THEN SkipSep(s, i + 1) ELSE i

\* mutant of sp: the separator of nom::space, which stops at a line break
sp_blanks(s, st) == IF st.pos = 0 THEN st ELSE Moved(st, SkipSpace(s, st.pos))

\* sp, the separator of ws!: zero or more separator characters; never fails
\* on its own
sp(s, st) == IF st.pos = 0 THEN st ELSE Moved(st, SkipSep(s, st.pos))

\* space: one or more blanks or tabs
space(s, st) ==
  IF st.pos = 0 \/ AtEnd(s, st.pos) THEN Failed(st)
  ELSE IF IsSpaceChar(s[st.pos]) THEN Moved(st, SkipSpace(s, st.pos))
  ELSE Failed(st)

\* opt!(space)
opt_space(s, st) == IF st.pos = 0 THEN st ELSE Moved(st, SkipSpace(s, st.pos))

\* line_ending: "\n" or "\r\n"
line_ending(s, st) ==
  IF st.pos = 0 \/ AtEnd(s, st.pos) THEN Failed(st)
  ELSE IF s[st.pos] = "\n" THEN Moved(st, st.pos + 1)
  ELSE IF s[st.pos] = "\r" /\ st.pos + 1 <= Len(s) /\ s[st.pos + 1] = "\n"
       THEN Moved(st, st.pos + 2)
  ELSE Failed(st)

\* tag!(t)
tag(t, s, st) ==
  IF st.pos = 0 \/ st.pos + Len(t) - 1 > Len(s) THEN Failed(st)
  ELSE IF \A k \in 1..Len(t) : s[st.pos + k - 1] = t[k]
       THEN Moved(st, st.pos + Len(t))
  ELSE Failed(st)

\* char!(c)
char(c, s, st) ==
  IF st.pos = 0 \/ AtEnd(s, st.pos) THEN Failed(st)
  ELSE IF s[st.pos] = c THEN Moved(st, st.pos + 1) ELSE Failed(st)

\* ws!(tag!(t)): separator, token, separator
ws_tag(t, s, st) == sp(s, tag(t, s, sp(s, st)))

\* a terminal inside a combinator under ws!: separator, then the token
sep_char(c, s, st) == char(c, s, sp(s, st))

\* mutant of end_line: end of input stands for the line terminator
end_line_or_eof(s, st) ==
  LET p == opt_space(s, st)
  IN  IF p.pos # 0 /\ AtEnd(s, p.pos) THEN p ELSE line_ending(s, p)

end_line(s, st) == line_ending(s, opt_space(s, st))

(***************************************************************************)
(* Tokens of the expression module                                         *)
(***************************************************************************)
\* the token from the position of st up to position e, e excluded
Token(s, st, e) == [pos |-> e, val |-> Append(st.val, SubSeq(s, st.pos, e - 1))]

RECURSIVE TakeIdChars(_, _)
TakeIdChars(s, i) ==
  IF i <= Len(s) /\ IsIdChar(s[i]) THEN TakeIdChars(s, i + 1) ELSE i

id(s, st) ==
  IF st.pos = 0 \/ AtEnd(s, st.pos) \/ ~IsIdChar(s[st.pos]) THEN Failed(st)
  ELSE Token(s, st, TakeIdChars(s, st.pos))

RECURSIVE TakeSymbolChars(_, _)
TakeSymbolChars(s, i) ==
  IF i <= Len(s) /\ IsSymbolChar(s[i]) THEN TakeSymbolChars(s, i + 1) ELSE i

symbol(s, st) ==
  IF st.pos = 0 \/ AtEnd(s, st.pos) \/ ~IsSymbolChar(s[st.pos]) THEN Failed(st)
  ELSE Token(s, st, TakeSymbolChars(s, st.pos))

\* ws!(id), ws!(symbol)
ws_id(s, st) == sp(s, id(s, sp(s, st)))

ws_symbol(s, st) == sp(s, symbol(s, sp(s, st)))

(***************************************************************************)
(* Text constants                                                          *)
(***************************************************************************)
kw_section == <<"-", "-", "-">>
kw_jump == <<"j", "u", "m", "p">>
kw_jump_if == <<"j", "u", "m", "p", "_", "i", "f">>
kw_talk == <<"t", "a", "l", "k">>
kw_gset == <<"g", "s", "e", "t">>
kw_receive_money ==
  <<"r", "e", "c", "e", "i", "v", "e", "_", "m", "o", "n", "e", "y">>
kw_remove_item == <<"r", "e", "m", "o", "v", "e", "_", "i", "t", "e", "m">>
kw_special == <<"s", "p", "e", "c", "i", "a", "l">>
kw_has_item == <<"h", "a", "s", "_", "i", "t", "e", "m">>
sym_shop_buy == <<"s", "h", "o", "p", "_", "b", "u", "y">>
sym_shop_sell == <<"s", "h", "o", "p", "_", "s", "e", "l", "l">>

(***************************************************************************)
(* Values: Expr, SpecialInstruction, Instruction                           *)
(***************************************************************************)
NoExpr == [e |-> "None", id |-> <<>>]
HasItem(x) == [e |-> "HasItem", id |-> x]

Jump(n) ==
  [op |-> "Jump", id |-> n, expr |-> NoExpr, choices |-> <<>>, kind |-> "None"]
JumpIf(n, e) ==
  [op |-> "JumpIf", id |-> n, expr |-> e, choices |-> <<>>, kind |-> "None"]
Talk(t, cs) ==
  [op |-> "Talk", id |-> t, expr |-> NoExpr, choices |-> cs, kind |-> "None"]
GSet(v, e) ==
  [op |-> "GSet", id |-> v, expr |-> e, choices |-> <<>>, kind |-> "None"]
ReceiveMoney(e) ==
  [op |-> "ReceiveMoney", id |-> <<>>, expr |-> e, choices |-> <<>>, kind |-> "None"]
RemoveItem(x) ==
  [op |-> "RemoveItem", id |-> x, expr |-> NoExpr, choices |-> <<>>, kind |-> "None"]
Special(k) ==
  [op |-> "Special", id |-> <<>>, expr |-> NoExpr, choices |-> <<>>, kind |-> k]

\* FromStr for SpecialInstruction: "Err" stands for the conversion's Err(_)
SpecialFromStr(x) ==
  IF x = sym_shop_buy THEN "ShopBuy"
  ELSE IF x = sym_shop_sell THEN "ShopSell"
  ELSE "Err"

\* the expression module's entry point
expr(s, st) ==
  Yield(LAMBDA v : HasItem(v[1]), st,
        char(")", s, ws_id(s, char("(", s, tag(kw_has_item, s, Fresh(st))))))

\* ws!(expr)
ws_expr(s, st) == sp(s, expr(s, sp(s, st)))

(***************************************************************************)
(* Section header                                                          *)
(***************************************************************************)
\* mutant of section_start: the marker under ws!, as the keywords are
section_start_ws(s, st) ==
  Yield(LAMBDA v : v[1], st,
        end_line(s, id(s, space(s, tag(kw_section, s, sp(s, Fresh(st)))))))

section_start(s, st) ==
  Yield(LAMBDA v : v[1], st,
        end_line(s, id(s, space(s, tag(kw_section, s, Fresh(st))))))

(***************************************************************************)
(* Instruction forms.  The steps of a do_parse! are composed from the      *)
(* right: the innermost application is the first step.                     *)
(***************************************************************************)
jump_instruction(s, st) ==
  Yield(LAMBDA v : Jump(v[1]), st,
        end_line(s, tag(<<")">>, s, ws_id(s, tag(<<"(">>, s,
          ws_tag(kw_jump, s, Fresh(st)))))))

jump_if_instruction(s, st) ==
  Yield(LAMBDA v : JumpIf(v[1], v[2]), st,
        end_line(s, char(")", s, ws_expr(s, char(",", s, ws_id(s, char("(", s,
          ws_tag(kw_jump_if, s, Fresh(st)))))))))

\* map_res!(.., FromStr::from_str): the symbol is replaced by its kind, and
\* the parser fails when the conversion does
map_res_from_str(r) ==
  IF r.pos = 0 THEN r
  ELSE IF SpecialFromStr(Value(r)) = "Err" THEN Failed(r)
  ELSE [pos |-> r.pos, val |-> <<SpecialFromStr(Value(r))>>]

\* mutant of special_instruction: the result of the conversion is not looked at
special_instruction_unchecked(s, st) ==
  Yield(LAMBDA v : Special(SpecialFromStr(v[1])), st,
        end_line(s, tag(<<")">>, s, ws_symbol(s, tag(<<"(">>, s,
          ws_tag(kw_special, s, Fresh(st)))))))

special_instruction(s, st) ==
  Yield(LAMBDA v : Special(v[1]), st,
        end_line(s, map_res_from_str(tag(<<")">>, s, ws_symbol(s, tag(<<"(">>, s,
          ws_tag(kw_special, s, Fresh(st))))))))

talk_instruction(s, st) ==
  Yield(LAMBDA v : Talk(v[1], <<>>), st,
        end_line(s, char(")", s, ws_id(s, char("(", s,
          ws_tag(kw_talk, s, Fresh(st)))))))

\* one element of the choice array: ws!(delimited!(char!('('),
\* separated_pair!(ws!(id), char!(','), ws!(id)), char!(')'))); ws! puts the
\* separator in front of every part of delimited! and separated_pair!
choice(s, st) ==
  Yield(LAMBDA v : <<v[1], v[2]>>, st,
        sp(s, sep_char(")", s, ws_id(s, sep_char(",", s, ws_id(s,
          sep_char("(", s, sp(s, Fresh(st)))))))))

\* the loop of separated_list!(char!(','), choice): l is the state after the
\* elements taken so far, r the attempt at one more; when the separator or
\* the element fails the list ends in front of the separator
RECURSIVE separated_list_from(_, _, _)
separated_list_from(s, l, r) ==
  IF r.pos = 0 THEN l
  ELSE separated_list_from(s, r, choice(s, sep_char(",", s, r)))

\* mutant of separated_list: separated_nonempty_list!, which wants a first element
separated_nonempty_list(s, st) ==
  LET r == separated_list_from(s, Fresh(st), choice(s, Fresh(st)))
  IN  IF r.val = <<>> THEN Failed(st) ELSE Yield(LAMBDA v : v, st, r)

\* separated_list!(char!(','), choice): the list is empty when no first
\* element parses
separated_list(s, st) ==
  Yield(LAMBDA v : v, st,
        separated_list_from(s, Fresh(st), choice(s, Fresh(st))))

\* array!(choice)
array(s, st) ==
  Yield(LAMBDA v : v[1], st,
        sp(s, sep_char("]", s, separated_list(s, sep_char("[", s,
          sp(s, Fresh(st)))))))

talk_instruction_with_choices(s, st) ==
  Yield(LAMBDA v : Talk(v[1], v[2]), st,
        end_line(s, char(")", s, array(s, char(",", s, ws_id(s, char("(", s,
          ws_tag(kw_talk, s, Fresh(st)))))))))

\* mutant of gset_instruction: the keyword of the form it was copied from
gset_instruction_jump_if(s, st) ==
  Yield(LAMBDA v : GSet(v[1], v[2]), st,
        end_line(s, char(")", s, ws_expr(s, char(",", s, ws_id(s, char("(", s,
          ws_tag(kw_jump_if, s, Fresh(st)))))))))

gset_instruction(s, st) ==
  Yield(LAMBDA v : GSet(v[1], v[2]), st,
        end_line(s, char(")", s, ws_expr(s, char(",", s, ws_id(s, char("(", s,
          ws_tag(kw_gset, s, Fresh(st)))))))))

receive_money_instruction(s, st) ==
  Yield(LAMBDA v : ReceiveMoney(v[1]), st,
        end_line(s, char(")", s, ws_expr(s, char("(", s,
          ws_tag(kw_receive_money, s, Fresh(st)))))))

remove_item_instruction(s, st) ==
  Yield(LAMBDA v : RemoveItem(v[1]), st,
        end_line(s, char(")", s, ws_id(s, char("(", s,
          ws_tag(kw_remove_item, s, Fresh(st)))))))

\* the outcomes of the alternatives of instruction, in the order alt! lists them
Outcomes(s, st) ==
  <<jump_instruction(s, st),
    jump_if_instruction(s, st),
    talk_instruction_with_choices(s, st),
    talk_instruction(s, st),
    gset_instruction(s, st),
    receive_money_instruction(s, st),
    remove_item_instruction(s, st),
    special_instruction(s, st)>>

InstructionOrder == <<1, 2, 3, 4, 5, 6, 7, 8>>

\* alt!: the outcome of the first alternative, in the given order, that
\* succeeds; none when there is no such alternative
RECURSIVE FirstOk(_, _, _, _)
FirstOk(order, outs, n, none) ==
  IF n > Len(order) THEN none
  ELSE IF outs[order[n]].pos # 0 THEN outs[order[n]]
  ELSE FirstOk(order, outs, n + 1, none)

alt(order, s, st) == FirstOk(order, Outcomes(s, st), 1, Failed(st))

instruction(s, st) == alt(InstructionOrder, s, st)

\* the loop of many0!(instruction): l is the state after the instructions
\* taken so far, r the attempt at one more
RECURSIVE many0_from(_, _, _)
many0_from(s, l, r) ==
  IF r.pos = 0 THEN l ELSE many0_from(s, r, instruction(s, r))

\* mutant of many0: each instruction is put in front of the ones before it
many0_reversed(s, st) ==
  Yield(LAMBDA v : [k \in 1..Len(v) |-> v[Len(v) + 1 - k]], st,
        many0_from(s, Fresh(st), instruction(s, Fresh(st))))

\* mutant of many0: many1!, which fails when no instruction follows
many1(s, st) ==
  LET r == many0_from(s, Fresh(st), instruction(s, Fresh(st)))
  IN  IF r.val = <<>> THEN Failed(st) ELSE Yield(LAMBDA v : v, st, r)

\* many0!(instruction)
many0(s, st) ==
  Yield(LAMBDA v : v, st, many0_from(s, Fresh(st), instruction(s, Fresh(st))))

\* the value of section is the pair (name, instructions)
section(s, st) ==
  Yield(LAMBDA v : <<v[1], v[2]>>, st, many0(s, section_start(s, Fresh(st))))

(***************************************************************************)
(* Bounds of the model                                                     *)
(***************************************************************************)
\* statements (headers, instructions, blank lines, stray lines) per source
MaxStmts == 3
\* choices in a written choice array
MaxChoices == 2

(***************************************************************************)
(* Written forms: the texts the sources are made of                        *)
(***************************************************************************)
id_a == <<"a">>
id_b == <<"b", "_", "2">>
id_k == <<"k", "-", "1">>

SectionNames == {id_a, id_b}

ChoiceList(n) ==
  [k \in 1..n |-> IF k % 2 = 1 THEN <<id_a, id_b>> ELSE <<id_b, id_a>>]

\* one instruction of every form, the talk form with each length of choice array
Instructions ==
  {Jump(id_b), JumpIf(id_a, HasItem(id_k)), Talk(id_k, <<>>),
   GSet(id_a, HasItem(id_k)), ReceiveMoney(HasItem(id_k)), RemoveItem(id_k),
   Special("ShopBuy"), Special("ShopSell")}
  \cup {Talk(id_k, ChoiceList(n)) : n \in 1..MaxChoices}

ExprText(e) == kw_has_item \o <<"(">> \o e.id \o <<")">>

RECURSIVE ChoiceTokens(_, _)
ChoiceTokens(cs, k) ==
  IF k > Len(cs) THEN <<>>
  ELSE (IF k > 1 THEN <<<<",">>>> ELSE <<>>)
       \o <<<<"(">>, cs[k][1], <<",">>, cs[k][2], <<")">>>>
       \o ChoiceTokens(cs, k + 1)

SpecialText(k) == IF k = "ShopBuy" THEN sym_shop_buy ELSE sym_shop_sell

\* the tokens of an instruction's written form, keyword first
Tokens(ins) ==
  CASE ins.op = "Jump" -> <<kw_jump, <<"(">>, ins.id, <<")">>>>
    [] ins.op = "JumpIf" ->
         <<kw_jump_if, <<"(">>, ins.id, <<",">>, ExprText(ins.expr), <<")">>>>
    [] ins.op = "Talk" /\ ins.choices = <<>> ->
         <<kw_talk, <<"(">>, ins.id, <<")">>>>
    [] ins.op = "Talk" /\ ins.choices # <<>> ->
         <<kw_talk, <<"(">>, ins.id, <<",">>, <<"[">>>>
         \o ChoiceTokens(ins.choices, 1) \o <<<<"]">>, <<")">>>>
    [] ins.op = "GSet" ->
         <<kw_gset, <<"(">>, ins.id, <<",">>, ExprText(ins.expr), <<")">>>>
    [] ins.op = "ReceiveMoney" ->
         <<kw_receive_money, <<"(">>, ExprText(ins.expr), <<")">>>>
    [] ins.op = "RemoveItem" -> <<kw_remove_item, <<"(">>, ins.id, <<")">>>>
    [] ins.op = "Special" -> <<kw_special, <<"(">>, SpecialText(ins.kind), <<")">>>>

\* the tokens joined as the fixtures write them (a blank after each comma),
\* with the whitespace w after token number gap (gap 0: nowhere)
RECURSIVE Join(_, _, _, _)
Join(toks, k, gap, w) ==
  IF k > Len(toks) THEN <<>>
  ELSE toks[k]
       \o (IF toks[k] = <<",">> THEN <<" ">> ELSE <<>>)
       \o (IF k = gap THEN w ELSE <<>>)
       \o Join(toks, k + 1, gap, w)

NL == <<"\n">>

\* an instruction on one line, without its line terminator
Statement(ins) == Join(Tokens(ins), 1, 0, <<>>)

\* the same with whitespace w between two tokens of the argument list
Spaced(ins, gap, w) == Join(Tokens(ins), 1, gap, w)

\* the places between two tokens of the parenthesized argument list
Gaps(ins) == 2..(Len(Tokens(ins)) - 1)

\* whitespace holding a line break, as the fixture's second line starts
LineBreaks == {<<"\n">>, <<" ", "\r", "\n", "\t">>}

\* a header line without its terminator; the second name is written as the
\* fixture of section_start_test is, with two blanks before and one after
HeaderText(n) ==
  IF n = id_a THEN kw_section \o <<" ">> \o n
  ELSE kw_section \o <<" ", " ">> \o n \o <<" ">>

\* empty and whitespace-only lines
BlankLines == {<<"\n">>, <<" ", "\n">>}

\* a line no section can consume: an instruction without its parentheses
StrayLines == {kw_jump \o <<" ">> \o id_a \o NL}

\* special(s) with a symbol outside the closed set
UnknownSpecialText == kw_special \o <<"(">> \o <<"s", "h", "o", "p">> \o <<")">> \o NL

\* talk with an empty choice array
EmptyArrayText == kw_talk \o <<"(">> \o id_k \o <<",", " ", "[", "]", ")">> \o NL

(***************************************************************************)
(* Writing a source                                                        *)
(***************************************************************************)
NoResult == [status |-> "none", script |-> <<>>]

Init ==
  /\ src = <<>>
  /\ pc = "write"
  /\ pos = 1
  /\ acc = <<>>
  /\ result = NoResult
  /\ out = Fail
  /\ written = <<>>
  /\ blank = FALSE
  /\ marks = {}
  /\ count = 0

\* the instruction ins written under the last header
AddInstruction(w, ins) ==
  IF w = <<>> THEN w
  ELSE [w EXCEPT ![Len(w)].ins = Append(@, ins)]

BeforeInstruction ==
  (IF written = <<>> THEN {"text_before_header"} ELSE {})
  \cup (IF blank THEN {"blank_before_instruction"} ELSE {})

\* a section header
WriteHeader(n) ==
  /\ pc = "write" /\ count < MaxStmts
  /\ src' = src \o HeaderText(n) \o NL
  /\ written' = Append(written, [name |-> n, ins |-> <<>>])
  /\ marks' = marks \cup (IF blank THEN {"blank_before_header"} ELSE {})
  /\ blank' = FALSE
  /\ count' = count + 1
  /\ UNCHANGED <<pc, pos, acc, result, out>>

\* an instruction on one line
WriteInstruction(ins) ==
  /\ pc = "write" /\ count < MaxStmts
  /\ src' = src \o Statement(ins) \o NL
  /\ written' = AddInstruction(written, ins)
  /\ marks' = marks \cup BeforeInstruction
  /\ blank' = FALSE
  /\ count' = count + 1
  /\ UNCHANGED <<pc, pos, acc, result, out>>

\* an empty or whitespace-only line
WriteBlank(b) ==
  /\ pc = "write" /\ count < MaxStmts /\ ~blank
  /\ src' = src \o b
  /\ blank' = TRUE
  /\ count' = count + 1
  /\ UNCHANGED <<pc, pos, acc, result, out, written, marks>>

\* a line that is neither a header nor an instruction
WriteStray(g) ==
  /\ pc = "write" /\ count < MaxStmts
  /\ src' = src \o g
  /\ marks' = marks \cup {"stray"}
  /\ blank' = FALSE
  /\ count' = count + 1
  /\ UNCHANGED <<pc, pos, acc, result, out, written>>

\* special(s) with s outside the closed set
WriteUnknownSpecial ==
  /\ pc = "write" /\ count < MaxStmts
  /\ src' = src \o UnknownSpecialText
  /\ marks' = marks \cup BeforeInstruction \cup {"unknown_special"}
  /\ blank' = FALSE
  /\ count' = count + 1
  /\ UNCHANGED <<pc, pos, acc, result, out, written>>

\* talk(id, [])
WriteEmptyArray ==
  /\ pc = "write" /\ count < MaxStmts
  /\ src' = src \o EmptyArrayText
  /\ written' = AddInstruction(written, Talk(id_k, <<>>))
  /\ marks' = marks \cup BeforeInstruction \cup {"empty_array"}
  /\ blank' = FALSE
  /\ count' = count + 1
  /\ UNCHANGED <<pc, pos, acc, result, out>>

\* a last statement that reaches end of input without a line terminator;
\* parse is called on the text
WriteUnterminated(x) ==
  /\ pc = "write" /\ count < MaxStmts /\ ~blank
  /\ src' = src \o x
  /\ marks' = marks \cup {"unterminated"}
  /\ count' = count + 1
  /\ pc' = "fold"
  /\ UNCHANGED <<pos, acc, result, out, written, blank>>

\* the text is complete; parse is called on it
EndOfInput ==
  /\ pc = "write"
  /\ marks' = marks \cup (IF blank THEN {"blank_at_end"} ELSE {})
  /\ pc' = "fold"
  /\ UNCHANGED <<src, pos, acc, result, out, written, blank, count>>

(***************************************************************************)
(* sections and parse                                                      *)
(***************************************************************************)
\* mutant of Insert: the entry is kept when the key is already there
InsertIfAbsent(m, k, v) ==
  [n \in DOMAIN m \cup {k} |-> IF n \in DOMAIN m THEN m[n] ELSE v]

\* HashMap::insert
Insert(m, k, v) ==
  [n \in DOMAIN m \cup {k} |-> IF n = k THEN v ELSE m[n]]

\* one turn of fold_many0!: section succeeds and its pair is folded into the map
FoldSection ==
  /\ pc = "fold"
  /\ \E r \in {section(src, Start(pos))} :
       /\ r.pos # 0
       /\ acc' = Insert(acc, Value(r)[1], Value(r)[2])
       /\ pos' = r.pos
  /\ UNCHANGED <<src, pc, result, out, written, blank, marks, count>>

\* mutant of exact: the remaining input is not looked at
exact_dropped(s, i) == TRUE

\* exact!: the fold has stopped and the remaining input must be empty
exact(s, i) == AtEnd(s, i)

\* section fails, fold_many0! returns the map; exact! and the match of parse
Finish ==
  /\ pc = "fold"
  /\ section(src, Start(pos)).pos = 0
  /\ result' = IF exact(src, pos)
               THEN [status |-> "ok", script |-> acc]
               ELSE [status |-> "err", script |-> <<>>]
  /\ pc' = "done"
  /\ UNCHANGED <<src, pos, acc, out, written, blank, marks, count>>

Unterminated ==
  {HeaderText(id_a), Statement(Jump(id_b)), Statement(Talk(id_k, <<>>)) \o <<" ">>}

Next ==
  \/ \E n \in SectionNames : WriteHeader(n)
  \/ \E ins \in Instructions : WriteInstruction(ins)
  \/ \E b \in BlankLines : WriteBlank(b)
  \/ \E g \in StrayLines : WriteStray(g)
  \/ WriteUnknownSpecial
  \/ WriteEmptyArray
  \/ \E x \in Unterminated : WriteUnterminated(x)
  \/ EndOfInput
  \/ FoldSection
  \/ Finish

Spec == Init /\ [][Next]_vars

(***************************************************************************)
(* What a written source says                                              *)
(***************************************************************************)
\* marks of texts that are statements of the grammar as the fixtures write them
PlainMarks == {"blank_before_instruction"}

Names(w) == {w[k].name : k \in DOMAIN w}

DistinctNames(w) ==
  \A j, k \in DOMAIN w : j # k => w[j].name # w[k].name

\* the last section written under the name n
LastOf(w, n) ==
  CHOOSE k \in DOMAIN w :
    /\ w[k].name = n
    /\ \A j \in DOMAIN w : w[j].name = n => j <= k

Returned == pc = "done"
Ok == result.status = "ok"
Err == result.status = "err" /\ result.script = <<>>

(***************************************************************************)
(* C1: a well-formed source with pairwise distinct section names compiles  *)
(* to a map with exactly one entry per header, each entry being the        *)
(* instructions written under that header, in source order and with the    *)
(* variant and field values of their written forms.                        *)
(***************************************************************************)
C1_SectionsAsWritten ==
  (Returned /\ marks \subseteq PlainMarks /\ DistinctNames(written)) =>
    /\ Ok
    /\ DOMAIN result.script = Names(written)
    /\ Cardinality(DOMAIN result.script) = Len(written)
    /\ \A k \in DOMAIN written : result.script[written[k].name] = written[k].ins

C1_Witness ==
  /\ Returned /\ Ok /\ marks = {}
  /\ Len(written) = 1 /\ Len(written[1].ins) = 2
  /\ written[1].ins[1].op = "Talk" /\ written[1].ins[1].choices # <<>>
  /\ written[1].ins[2].op = "JumpIf"
  /\ result.script[written[1].name] = written[1].ins

(***************************************************************************)
(* C2: parse returns Ok only when the repeated section grammar has         *)
(* consumed the whole input; when input is left that no section can        *)
(* consume (a malformed instruction, text before the first header) parse   *)
(* returns the error and no Script of the sections recognized before it.   *)
(***************************************************************************)
C2_AllOrNothing ==
  Returned =>
    /\ Ok => (pos = Len(src) + 1 /\ result.script = acc)
    /\ pos <= Len(src) => Err
    /\ marks \cap {"stray", "text_before_header"} # {} => Err

C2_Witness ==
  /\ Returned /\ Err /\ marks = {"stray"}
  /\ Len(written) = 2
  /\ Cardinality(DOMAIN acc) = 1
  /\ pos <= Len(src)

(***************************************************************************)
(* C3: when two or more sections are written under one name, compilation   *)
(* succeeds and the entry of that name is the instruction list of the last *)
(* of them: not the first one's list, not the lists joined, and one entry. *)
(***************************************************************************)
C3_LastSectionWins ==
  (Returned /\ marks \subseteq PlainMarks /\ ~DistinctNames(written)) =>
    /\ Ok
    /\ DOMAIN result.script = Names(written)
    /\ \A j, k \in DOMAIN written :
         (j < k /\ written[j].name = written[k].name
            /\ k = LastOf(written, written[k].name)) =>
           /\ result.script[written[k].name] = written[k].ins
           /\ written[j].ins # written[k].ins =>
                result.script[written[k].name] # written[j].ins
           /\ written[j].ins # <<>> =>
                result.script[written[k].name] # written[j].ins \o written[k].ins

C3_Witness ==
  /\ Returned /\ Ok /\ marks = {}
  /\ Len(written) = 2 /\ written[1].name = written[2].name
  /\ written[1].ins # <<>> /\ written[2].ins = <<>>
  /\ Cardinality(DOMAIN result.script) = 1
  /\ result.script[written[1].name] = <<>>

(***************************************************************************)
(* C5: a header followed at once by another header or by end of input      *)
(* compiles, and its entry is the empty instruction list.                  *)
(***************************************************************************)
C5_EmptySection ==
  (Returned /\ marks \subseteq PlainMarks
     /\ \E k \in DOMAIN written : written[k].ins = <<>>) =>
    /\ Ok
    /\ \A k \in DOMAIN written :
         (written[k].ins = <<>> /\ k = LastOf(written, written[k].name)) =>
           /\ written[k].name \in DOMAIN result.script
           /\ result.script[written[k].name] = <<>>

C5_Witness ==
  /\ Returned /\ Ok /\ marks = {}
  /\ Len(written) = 2 /\ written[1].name # written[2].name
  /\ written[1].ins = <<>> /\ written[2].ins = <<>>
  /\ result.script[written[1].name] = <<>>
  /\ result.script[written[2].name] = <<>>

(***************************************************************************)
(* C6: a source holding special(s) with s outside the closed set fails to  *)
(* compile: no instruction form accepts the text, and where it is the only *)
(* irregularity the fold stops in front of it.                             *)
(***************************************************************************)
C6_UnknownSpecialFails ==
  (Returned /\ "unknown_special" \in marks) =>
    /\ Err
    /\ pos <= Len(src)
    /\ (marks = {"unknown_special"} /\ written # <<>>) =>
         /\ SubSeq(src, pos, pos + Len(UnknownSpecialText) - 1) = UnknownSpecialText
         /\ \A k \in 1..8 : Outcomes(src, Start(pos))[k].pos = 0

C6_Witness ==
  /\ Returned /\ Err /\ marks = {"unknown_special"}
  /\ Len(written) = 1 /\ Len(written[1].ins) = 1
  /\ special_instruction(src, Start(pos)).pos = 0

(***************************************************************************)
(* C7, as claimed: talk(id, []) does not compile.                          *)
(***************************************************************************)
C7_EmptyArrayRejected ==
  (Returned /\ "empty_array" \in marks) => ~Ok

(***************************************************************************)
(* C7, amended: a choice array holds zero or more choices; talk(id, [])    *)
(* compiles, to Talk(id, []).                                              *)
(***************************************************************************)
C7_EmptyArrayAccepted ==
  (Returned /\ "empty_array" \in marks
     /\ marks \subseteq PlainMarks \cup {"empty_array"}) =>
    /\ Ok
    /\ DOMAIN result.script = Names(written)
    /\ \A n \in Names(written) :
         result.script[n] = written[LastOf(written, n)].ins

C7_Witness ==
  /\ Returned /\ Ok /\ marks = {"empty_array"}
  /\ Len(written) = 1
  /\ result.script[written[1].name] = <<Talk(id_k, <<>>)>>

(***************************************************************************)
(* C8: whatever the fold consumes ends with a line terminator, and a       *)
(* source whose last statement reaches end of input without one fails.     *)
(***************************************************************************)
C8_EndOfStatement ==
  /\ (pc \in {"fold", "done"} /\ pos > 1) => src[pos - 1] = "\n"
  /\ (Returned /\ Ok /\ src # <<>>) => src[Len(src)] = "\n"
  /\ (Returned /\ "unterminated" \in marks) => Err

C8_Witness ==
  /\ Returned /\ Err /\ marks = {"unterminated"}
  /\ Len(written) = 1 /\ Len(written[1].ins) = 1
  /\ src[Len(src)] = " "
  /\ pos <= Len(src)

(***************************************************************************)
(* C10: an empty or whitespace-only line in front of an instruction leaves *)
(* the compiled result as it is without the line; in front of a header     *)
(* (the first one included) or at the end of the input it makes            *)
(* compilation fail.                                                       *)
(***************************************************************************)
C10_BlankLines ==
  Returned =>
    /\ marks = {"blank_before_instruction"} =>
         /\ Ok
         /\ DOMAIN result.script = Names(written)
         /\ \A n \in Names(written) :
              result.script[n] = written[LastOf(written, n)].ins
    /\ marks \cap {"blank_before_header", "blank_at_end"} # {} => Err

C10_Witness ==
  /\ Returned /\ Err /\ marks = {"blank_before_header"}
  /\ Len(written) = 2
  /\ Cardinality(DOMAIN acc) = 1
  /\ src[pos] \in {"\n", " "}

(***************************************************************************)
(* The instruction grammar on its own: one instruction text is chosen and  *)
(* instruction is applied to it.                                           *)
(***************************************************************************)
InitInstr ==
  /\ src = <<>>
  /\ pc = "text"
  /\ pos = 1
  /\ acc = <<>>
  /\ result = NoResult
  /\ out = Fail
  /\ written = <<>>
  /\ blank = FALSE
  /\ marks = {}
  /\ count = 0

Keywords ==
  {kw_jump, kw_jump_if, kw_talk, kw_gset, kw_receive_money, kw_remove_item,
   kw_special}

\* argument lists: the one of every form, and some that no form takes
ArgLists ==
  {<<"(">> \o id_a \o <<")">>,
   <<"(">> \o id_a \o <<",", " ">> \o ExprText(HasItem(id_k)) \o <<")">>,
   <<"(">> \o ExprText(HasItem(id_k)) \o <<")">>,
   <<"(">> \o sym_shop_buy \o <<")">>,
   <<"(">> \o id_a \o <<",", " ", "[", "]", ")">>,
   <<"(">> \o id_a \o <<",", ")">>,
   <<"(", ")">>}
  \cup {<<"(">> \o id_a \o <<",", " ", "[">>
          \o Join(ChoiceTokens(ChoiceList(n), 1), 1, 0, <<>>) \o <<"]", ")">>
        : n \in 1..MaxChoices}

\* an instruction with a line break between two tokens of its argument list
ChooseSpaced(ins, gap, w) ==
  /\ pc = "text"
  /\ src' = Spaced(ins, gap, w) \o NL
  /\ written' = <<[name |-> <<>>, ins |-> <<ins>>]>>
  /\ marks' = {"spaced"}
  /\ pc' = "ready"
  /\ UNCHANGED <<pos, acc, result, out, blank, count>>

\* a keyword in front of an argument list, its own or another form's
ChooseCross(kw, args) ==
  /\ pc = "text"
  /\ src' = kw \o args \o NL
  /\ marks' = {"cross"}
  /\ pc' = "ready"
  /\ UNCHANGED <<pos, acc, result, out, written, blank, count>>

ApplyInstruction ==
  /\ pc = "ready"
  /\ out' = instruction(src, Start(1))
  /\ pc' = "applied"
  /\ UNCHANGED <<src, pos, acc, result, written, blank, marks, count>>

NextInstr ==
  \/ \E ins \in Instructions : \E gap \in Gaps(ins) : \E w \in LineBreaks :
       ChooseSpaced(ins, gap, w)
  \/ \E kw \in Keywords, args \in ArgLists : ChooseCross(kw, args)
  \/ ApplyInstruction

SpecInstr == InitInstr /\ [][NextInstr]_vars

(***************************************************************************)
(* C4: whitespace holding a line break between two tokens of the argument  *)
(* list gives the Instruction of the single-line text.                     *)
(***************************************************************************)
C4_LineBreaksInArguments ==
  (pc = "applied" /\ "spaced" \in marks) =>
    LET ins == written[1].ins[1]
        one == instruction(Statement(ins) \o NL, Start(1))
    IN  /\ one.pos # 0
        /\ out.pos = Len(src) + 1
        /\ Value(out) = Value(one)
        /\ Value(out) = ins

C4_Witness ==
  /\ pc = "applied" /\ "spaced" \in marks
  /\ \E k \in 1..Len(src) - 2 : src[k] = "," /\ src[k + 1] = " " /\ src[k + 2] = "\n"
       /\ src[k + 3] = "["
  /\ out.pos = Len(src) + 1
  /\ out.val = <<Talk(id_k, ChoiceList(2))>>

IndexIn(p, x) == CHOOSE k \in DOMAIN p : p[k] = x

\* the order p tries talk-with-choices before plain talk
ChoicesFirst(p) == IndexIn(p, 3) < IndexIn(p, 4)

(***************************************************************************)
(* C9: the outcome of the instruction grammar is the same under every      *)
(* order of its eight alternatives that tries talk-with-choices before     *)
(* plain talk; a text jump_if accepts is a JumpIf although jump is tried   *)
(* first.                                                                  *)
(***************************************************************************)
C9_OrderOfAlternatives ==
  pc = "applied" =>
    LET outs == Outcomes(src, Start(1))
    IN  /\ \A p \in Permutations(DOMAIN InstructionOrder) :
             FirstOk(p, outs, 1, Fail) = out \/ ~ChoicesFirst(p)
        /\ outs[2].pos # 0 => (out = outs[2] /\ Value(out).op = "JumpIf")

C9_Witness ==
  /\ pc = "applied" /\ "cross" \in marks
  /\ tag(kw_jump_if, src, Start(1)).pos # 0
  /\ out.pos = Len(src) + 1
  /\ out.val = <<JumpIf(id_a, HasItem(id_k))>>

====
